---- MODULE Spec2Model ----
(***************************************************************************)
(* Model of the user service of main.go: the HTTP handlers (controller),   *)
(* the validation service, the caching proxy repository, the Redis cache   *)
(* wrapper and the SQLite user table.  Each request is served by its own   *)
(* worker; a worker's steps are the accesses to the two shared backends    *)
(* (one SQL statement, one Redis command), everything between two          *)
(* accesses is local to the worker and belongs to the step that follows.   *)
(***************************************************************************)
EXTENDS Integers, Sequences, FiniteSets, TLC

\* ------------------------------------------------------------------ bounds

\* number of request workers that may be in flight at the same time
NumWorkers == 2

\* minutes that pass in one step of the clock
TickMinutes == 3

Procs == 1..NumWorkers

\* the worker of the sequential specification
SeqProcs == {1}

\* ------------------------------------------------------- program constants

\* cache.dataExpiration, in minutes (NewCache)
defaultDataExpiration == 5

\* http.StatusCreated, http.StatusBadRequest, http.StatusInternalServerError,
\* and the implicit http.StatusOK of a first Write without WriteHeader
StatusOK == 200
StatusCreated == 201
StatusBadRequest == 400
StatusInternalServerError == 500

\* the age limit of userService.Create
MinAge == 18

\* ------------------------------------------------------------------ inputs

Emails == {"a@x.com", "b@x.com"}

\* ------------------------------------------------------------- JSON values

Absent == [t |-> "absent", s |-> "", n |-> 0]
JStr(s) == [t |-> "string", s |-> s, n |-> 0]
JNum(n) == [t |-> "number", s |-> "", n |-> n]

JNull == [t |-> "null", name |-> Absent, password |-> Absent, email |-> Absent, age |-> Absent]
JArray == [t |-> "array", name |-> Absent, password |-> Absent, email |-> Absent, age |-> Absent]
JObject(name, password, email, age) ==
    [t |-> "object", name |-> name, password |-> password, email |-> email, age |-> age]

\* A request body: what the decoder finds at the start of the stream (nothing,
\* text that is no JSON value, or a JSON value) and whether more text follows
\* the first value.
Body(lead, val, rest) == [lead |-> lead, val |-> val, rest |-> rest]

Bodies ==
    {Body("eof", JNull, FALSE), Body("syntax", JNull, FALSE)}
    \cup {Body("value", JNull, FALSE), Body("value", JArray, FALSE)}
    \cup {Body("value", JObject(JStr("Al"), JStr("x"), JStr(e), JNum(MinAge)), FALSE) :
            e \in Emails}
    \cup {Body("value", JObject(JStr("Al"), JStr("x"), JStr("a@x.com"), JNum(MinAge - 1)), FALSE),
          Body("value", JObject(JStr("Al"), JStr("x"), JStr("a@x.com"), JStr("18")), FALSE),
          Body("value", JObject(JStr("Al"), JStr("x"), JStr("a@x.com"), Absent), FALSE),
          Body("value", JObject(JStr("Al"), JStr("x"), JStr("b@x.com"), JNum(MinAge - 1)), TRUE)}

\* ------------------------------------------------------------------- models

\* the zero value of type User
ZeroUser == [Id |-> 0, Name |-> "", Password |-> "", Email |-> "", Age |-> 0]

\* a Go slice of User: the nil slice, or a slice with elements
NilSlice == [isNil |-> TRUE, elems |-> <<>>]
Slice(s) == [isNil |-> FALSE, elems |-> s]

\* json.Unmarshal of one member into a string field
UnmarshalString(v, old) ==
    CASE v.t = "string" -> [val |-> v.s, ok |-> TRUE]
      [] v.t = "absent" -> [val |-> old, ok |-> TRUE]
      [] OTHER -> [val |-> old, ok |-> FALSE]

\* variant: a member of another type is skipped without an error
UnmarshalIntMutLenient(v, old) ==
    CASE v.t = "number" -> [val |-> v.n, ok |-> TRUE]
      [] OTHER -> [val |-> old, ok |-> TRUE]

\* json.Unmarshal of one member into an int field
UnmarshalInt(v, old) ==
    CASE v.t = "number" -> [val |-> v.n, ok |-> TRUE]
      [] v.t = "absent" -> [val |-> old, ok |-> TRUE]
      [] OTHER -> [val |-> old, ok |-> FALSE]

\* json.NewDecoder(r.Body).Decode(&user): reads the first JSON value of the
\* body and unmarshals it into a zero User; text after that value is not read
DecodeUser(body) ==
    IF body.lead # "value"
    THEN [user |-> ZeroUser, err |-> "DecodeFailure"]
    ELSE CASE body.val.t = "null" -> [user |-> ZeroUser, err |-> "nil"]
           [] body.val.t = "object" ->
                LET name == UnmarshalString(body.val.name, "")
                    password == UnmarshalString(body.val.password, "")
                    email == UnmarshalString(body.val.email, "")
                    age == UnmarshalInt(body.val.age, 0)
                IN  [user |-> [Id |-> 0, Name |-> name.val, Password |-> password.val,
                               Email |-> email.val, Age |-> age.val],
                     err |-> IF name.ok /\ password.ok /\ email.ok /\ age.ok
                             THEN "nil" ELSE "DecodeFailure"]
           [] OTHER -> [user |-> ZeroUser, err |-> "DecodeFailure"]

\* the JSON object json.Encoder writes for one User (the json tags of User)
EncodeUser(u) ==
    [id |-> u.Id, name |-> u.Name, password |-> u.Password, email |-> u.Email, age |-> u.Age]

\* variant: two members are decoded into each other's field
DecodeUserObjectMutSwap(o) ==
    [Id |-> o.id, Name |-> o.password, Password |-> o.name, Email |-> o.email, Age |-> o.age]

\* the User json.Decoder builds from one JSON object
DecodeUserObject(o) ==
    [Id |-> o.id, Name |-> o.name, Password |-> o.password, Email |-> o.email, Age |-> o.age]

\* json.NewEncoder(..).Encode(users) of a []User: a nil slice is written as
\* null, any other slice as an array
EncodeUsers(users) ==
    IF users.isNil
    THEN [kind |-> "null", items |-> <<>>]
    ELSE [kind |-> "array", items |-> [i \in 1..Len(users.elems) |-> EncodeUser(users.elems[i])]]

\* variant: decoding into an empty, non-nil slice
DecodeUsersMutEmpty(doc) ==
    IF doc.kind = "null"
    THEN Slice(<<>>)
    ELSE Slice([i \in 1..Len(doc.items) |-> DecodeUserObject(doc.items[i])])

\* json.NewDecoder(buffer).Decode(&users) into a nil []User: null leaves the
\* slice nil, an array makes a slice of its elements
DecodeUsers(doc) ==
    IF doc.kind = "null"
    THEN NilSlice
    ELSE Slice([i \in 1..Len(doc.items) |-> DecodeUserObject(doc.items[i])])

NoJson == [kind |-> "none", items |-> <<>>]

\* bytes under the key that are no JSON list of users
Garbage == [kind |-> "garbage", items |-> <<>>]

\* the error of json.NewDecoder(buffer).Decode(&users)
DecodeUsersErr(doc) == IF doc.kind \in {"null", "array"} THEN "nil" ELSE "DecodeFailure"

\* the values handed to cache.Set (value interface{}): a []User, a []byte, or
\* a value encoding/json has no encoding for (a func or a chan)
UsersValue(users) == [kind |-> "users", users |-> users, raw |-> NoJson]
BytesValue(doc) == [kind |-> "bytes", users |-> NilSlice, raw |-> doc]
FuncValue == [kind |-> "func", users |-> NilSlice, raw |-> NoJson]

\* cache.Set, the type switch: a []byte is stored as it is, any other value
\* is encoded as JSON, which fails for a value without encoding
EncodeValue(value) ==
    CASE value.kind = "bytes" -> [err |-> "nil", data |-> value.raw]
      [] value.kind = "users" -> [err |-> "nil", data |-> EncodeUsers(value.users)]
      [] OTHER -> [err |-> "EncodeFailure", data |-> NoJson]

\* strconv.Itoa
DigitStr == <<"0", "1", "2", "3", "4", "5", "6", "7", "8", "9">>
RECURSIVE Itoa(_)
Itoa(n) == IF n < 10 THEN DigitStr[n + 1] ELSE Itoa(n \div 10) \o DigitStr[(n % 10) + 1]

\* ------------------------------------------------------------------- state

VARIABLES
    store,        \* rows of table users, in rowid order
    seq,          \* the AUTOINCREMENT counter of table users (sqlite_sequence)
    storeUp,      \* whether the database answers (FALSE: every statement fails)
    cache,        \* the Redis entry under key "users"
    pc,           \* per worker: the backend access it is about to make
    loc,          \* per worker: the request and the handler's local variables
    invalidated,  \* history: ids of the creates that returned after a successful cache delete
    out           \* the request completed last, with the response written;
                  \* afterList, kept for a listAll answered from the cache:
                  \* the request completed before it was a successful listAll

vars == <<store, seq, storeUp, cache, pc, loc, invalidated, out>>

Min(a, b) == IF a < b THEN a ELSE b

\* The entry under key "users".  Two fields are history: asOf, the creates that
\* had returned when the list was read from the table, and evicted, whether the
\* key is absent because a cache delete removed a live entry.
NoEntry == [present |-> FALSE, data |-> NoJson, ttl |-> 0, age |-> 0, asOf |-> {},
            evicted |-> FALSE]

\* variant: the entry is set without an expiration
EntryMutNoExpiry(data, ttl, asOf) ==
    [present |-> TRUE, data |-> data, ttl |-> 0, age |-> 0, asOf |-> asOf,
     evicted |-> FALSE]

\* c.client.Set(ctx, key, data, c.dataExpiration): the entry Redis holds after it
Entry(data, ttl, asOf) ==
    [present |-> TRUE, data |-> data, ttl |-> ttl, age |-> 0, asOf |-> asOf,
     evicted |-> FALSE]

\* Redis: a key with an expiration is gone once the expiration has elapsed; an
\* expiration of 0 means the key does not expire
Live(c) == c.present /\ (c.ttl = 0 \/ c.age < c.ttl)

\* variant: the error of the Redis command is returned
CacheSetMutReturns(c, value, ok, asOf) ==
    LET e == EncodeValue(value)
    IN  IF e.err # "nil"
        THEN [err |-> e.err, logged |-> FALSE, entry |-> c]
        ELSE IF ~ok
        THEN [err |-> "TransportFailure", logged |-> TRUE, entry |-> c]
        ELSE [err |-> "nil", logged |-> FALSE,
              entry |-> Entry(e.data, defaultDataExpiration, asOf)]

\* cache.Set(key, value): what it returns, whether it logs, and the entry
\* under the key after it; ok: the Redis command succeeds.  An encoding error
\* is returned before Redis is reached; an error of the Redis command is
\* logged and nil is returned
CacheSet(c, value, ok, asOf) ==
    LET e == EncodeValue(value)
    IN  IF e.err # "nil"
        THEN [err |-> e.err, logged |-> FALSE, entry |-> c]
        ELSE IF ~ok
        THEN [err |-> "nil", logged |-> TRUE, entry |-> c]
        ELSE [err |-> "nil", logged |-> FALSE,
              entry |-> Entry(e.data, defaultDataExpiration, asOf)]

\* variant: the key is not removed
DeletedMutKept(c) == c

\* c.client.Del(ctx, key): the key is gone
Deleted(c) == [NoEntry EXCEPT !.evicted = Live(c) \/ (~c.present /\ c.evicted)]

NoBody == Body("none", JNull, FALSE)

IdleLoc == [op |-> "none", body |-> NoBody, user |-> ZeroUser, id |-> 0,
            users |-> NilSlice, trace |-> <<>>, asOf |-> {}, evicted |-> FALSE]

NoResp == [status |-> 0, err |-> "nil", text |-> "", json |-> NoJson]

NoOut == [op |-> "none", body |-> NoBody, user |-> ZeroUser, id |-> 0,
          trace |-> <<>>, evicted |-> FALSE, afterList |-> FALSE, resp |-> NoResp]

\* w.WriteHeader(status); w.Write([]byte(err.Error()))
ErrorResp(status, err) == [status |-> status, err |-> err, text |-> err, json |-> NoJson]

\* w.WriteHeader(http.StatusCreated); w.Write([]byte(strconv.Itoa(id)))
CreatedResp(id) == [status |-> StatusCreated, err |-> "nil", text |-> Itoa(id), json |-> NoJson]

\* json.NewEncoder(w).Encode(users): the first write sends status 200
UsersResp(users) ==
    [status |-> StatusOK, err |-> "nil", text |-> "", json |-> EncodeUsers(users)]

\* ---------------------------------------------------------------- table users

\* variant: column email without UNIQUE
EmailExistsMutNever(rows, email) == FALSE

\* the UNIQUE constraint of column email
EmailExists(rows, email) == \E i \in 1..Len(rows) : rows[i].email = email

\* INSERT INTO users (name, password, email, age): the id is generated
Row(id, user) ==
    [id |-> id, name |-> user.Name, password |-> user.Password,
     email |-> user.Email, age |-> user.Age]

\* rows.Scan(&user.Id, &user.Name, &user.Password, &user.Email, &user.Age)
Scan(row) ==
    [Id |-> row.id, Name |-> row.name, Password |-> row.password,
     Email |-> row.email, Age |-> row.age]

\* variant: the loop over rows.Next() stops after the first row
SelectAllMutFirstRow(rows) ==
    IF Len(rows) = 0 THEN NilSlice ELSE Slice(<<Scan(rows[1])>>)

\* userDb.GetAll: users stays the nil slice when the table has no row
SelectAll(rows) ==
    IF Len(rows) = 0 THEN NilSlice ELSE Slice([i \in 1..Len(rows) |-> Scan(rows[i])])

\* variant: the id does not advance
LastInsertIdMutOne(s) == 1

\* result.LastInsertId() of an INSERT into an AUTOINCREMENT table whose
\* counter is s
LastInsertId(s) == s + 1

\* variant: the limit is off by one
TooYoungMutLimit(user) == user.Age < MinAge - 1

\* userService.Create: the age rule
TooYoung(user) == user.Age < MinAge

\* ----------------------------------------------------------------- actions

Init ==
    /\ store = <<>>
    /\ seq = 0
    /\ storeUp = TRUE
    /\ cache = NoEntry
    /\ pc = [p \in Procs |-> "idle"]
    /\ loc = [p \in Procs |-> IdleLoc]
    /\ invalidated = {}
    /\ out = NoOut

\* the handler of worker p writes response r and returns; l holds its locals
Complete(p, r, l) ==
    /\ pc' = [pc EXCEPT ![p] = "idle"]
    /\ loc' = [loc EXCEPT ![p] = IdleLoc]
    /\ out' = [op |-> l.op, body |-> l.body, user |-> l.user, id |-> l.id,
               trace |-> l.trace, evicted |-> l.evicted,
               afterList |-> /\ l.trace = <<"cache.Get:hit">>
                             /\ out.op = "list"
                             /\ out.resp.status = StatusOK,
               resp |-> r]

\* the handler of worker p goes on to its next backend access
Goto(p, label, l) ==
    /\ pc' = [pc EXCEPT ![p] = label]
    /\ loc' = [loc EXCEPT ![p] = l]
    /\ UNCHANGED out

\* POST /user: userController.Create up to the call of the repository:
\* decode the body, then userService.Create checks the age
ControllerCreate(p, body) ==
    /\ pc[p] = "idle"
    /\ LET d == DecodeUser(body)
           l == [IdleLoc EXCEPT !.op = "create", !.body = body, !.user = d.user]
       IN  IF d.err # "nil"
           THEN Complete(p, ErrorResp(StatusBadRequest, d.err), l)
           ELSE IF TooYoung(d.user)
           THEN Complete(p, ErrorResp(StatusInternalServerError, "ValidationFailure"),
                         [l EXCEPT !.trace = <<"service.Create">>])
           ELSE Goto(p, "db.Create", [l EXCEPT !.trace = <<"service.Create">>])
    /\ UNCHANGED <<store, seq, storeUp, cache, invalidated>>

\* variant: the key is deleted also when the INSERT failed
UserDbCreateMutEvict(p) ==
    /\ pc[p] = "db.Create"
    /\ LET l == [loc[p] EXCEPT !.trace = Append(@, IF storeUp THEN "db.Create" ELSE "db.Create:err")]
       IN  IF ~storeUp
           THEN /\ Complete(p, ErrorResp(StatusInternalServerError, "IOFailure"), l)
                /\ UNCHANGED <<store, seq>>
                /\ cache' = Deleted(cache)
           ELSE IF EmailExists(store, l.user.Email)
           THEN /\ Complete(p, ErrorResp(StatusInternalServerError, "ConstraintViolation"), l)
                /\ UNCHANGED <<store, seq>>
                /\ cache' = Deleted(cache)
           ELSE /\ store' = Append(store, Row(LastInsertId(seq), l.user))
                /\ seq' = LastInsertId(seq)
                /\ Goto(p, "cache.Delete", [l EXCEPT !.id = LastInsertId(seq)])
                /\ UNCHANGED cache
    /\ UNCHANGED <<storeUp, invalidated>>

\* proxyUserRepo.Create, first half: userDb.Create runs the INSERT
UserDbCreate(p) ==
    /\ pc[p] = "db.Create"
    /\ LET l == [loc[p] EXCEPT !.trace = Append(@, IF storeUp THEN "db.Create" ELSE "db.Create:err")]
       IN  IF ~storeUp
           THEN /\ Complete(p, ErrorResp(StatusInternalServerError, "IOFailure"), l)
                /\ UNCHANGED <<store, seq>>
           ELSE IF EmailExists(store, l.user.Email)
           THEN /\ Complete(p, ErrorResp(StatusInternalServerError, "ConstraintViolation"), l)
                /\ UNCHANGED <<store, seq>>
           ELSE /\ store' = Append(store, Row(LastInsertId(seq), l.user))
                /\ seq' = LastInsertId(seq)
                /\ Goto(p, "cache.Delete", [l EXCEPT !.id = LastInsertId(seq)])
    /\ UNCHANGED <<storeUp, cache, invalidated>>

\* variant: a failed cache delete is tried again
ProxyCreateDeleteMutRetry(p, ok) ==
    /\ pc[p] = "cache.Delete"
    /\ cache' = IF ok THEN Deleted(cache) ELSE cache
    /\ invalidated' = IF ok THEN invalidated \cup {loc[p].id} ELSE invalidated
    /\ IF ok
       THEN Complete(p, CreatedResp(loc[p].id),
                     [loc[p] EXCEPT !.trace = Append(@, "cache.Delete")])
       ELSE Goto(p, "cache.Delete", [loc[p] EXCEPT !.trace = Append(@, "cache.Delete:err")])
    /\ UNCHANGED <<store, seq, storeUp>>

\* proxyUserRepo.Create, second half: cache.Delete("users"), whose failure is
\* only logged; then the controller answers 201 with the id
ProxyCreateDelete(p, ok) ==
    /\ pc[p] = "cache.Delete"
    /\ cache' = IF ok THEN Deleted(cache) ELSE cache
    /\ invalidated' = IF ok THEN invalidated \cup {loc[p].id} ELSE invalidated
    /\ Complete(p, CreatedResp(loc[p].id),
                [loc[p] EXCEPT !.trace = Append(@, IF ok THEN "cache.Delete" ELSE "cache.Delete:err")])
    /\ UNCHANGED <<store, seq, storeUp>>

\* GET /users: proxyUserRepo.GetAll, first part: cache.Get("users"); a hit is
\* decoded and answered at once; a failed command, a missing or expired key
\* and a value that does not decode all go on to the table
ProxyGetAllGet(p, ok) ==
    /\ pc[p] = "idle"
    /\ LET l == [IdleLoc EXCEPT !.op = "list", !.evicted = ok /\ cache.evicted]
       IN  IF ok /\ Live(cache) /\ DecodeUsersErr(cache.data) = "nil"
           THEN LET users == DecodeUsers(cache.data)
                IN  Complete(p, UsersResp(users),
                             [l EXCEPT !.users = users, !.trace = <<"cache.Get:hit">>])
           ELSE Goto(p, "db.GetAll",
                     [l EXCEPT !.trace = << IF ~ok THEN "cache.Get:err"
                                            ELSE IF ~cache.present THEN "cache.Get:nil"
                                            ELSE IF ~Live(cache) THEN "cache.Get:expired"
                                            ELSE "cache.Get:decode" >>])
    /\ UNCHANGED <<store, seq, storeUp, cache, invalidated>>

\* proxyUserRepo.GetAll, second part: userDb.GetAll runs the SELECT
UserDbGetAll(p) ==
    /\ pc[p] = "db.GetAll"
    /\ LET l == [loc[p] EXCEPT !.trace = Append(@, IF storeUp THEN "db.GetAll" ELSE "db.GetAll:err")]
       IN  IF ~storeUp
           THEN Complete(p, ErrorResp(StatusInternalServerError, "IOFailure"), l)
           ELSE Goto(p, "cache.Set", [l EXCEPT !.users = SelectAll(store), !.asOf = invalidated])
    /\ UNCHANGED <<store, seq, storeUp, cache, invalidated>>

\* variant: SET with NX, the first of two writers wins
ProxyGetAllSetMutNX(p, ok) ==
    /\ pc[p] = "cache.Set"
    /\ cache' = IF ok /\ ~Live(cache)
                THEN CacheSet(cache, UsersValue(loc[p].users), ok, loc[p].asOf).entry
                ELSE cache
    /\ Complete(p, UsersResp(loc[p].users),
                [loc[p] EXCEPT !.trace = Append(@, IF ok THEN "cache.Set" ELSE "cache.Set:err")])
    /\ UNCHANGED <<store, seq, storeUp, invalidated>>

\* proxyUserRepo.GetAll, last part: cache.Set("users", users); an error it
\* returns is only logged; then the controller encodes the list
ProxyGetAllSet(p, ok) ==
    /\ pc[p] = "cache.Set"
    /\ LET r == CacheSet(cache, UsersValue(loc[p].users), ok, loc[p].asOf)
       IN  /\ cache' = r.entry
           /\ Complete(p, UsersResp(loc[p].users),
                       [loc[p] EXCEPT !.trace = Append(@, IF r.err = "nil" /\ ~r.logged
                                                          THEN "cache.Set"
                                                          ELSE "cache.Set:err")])
    /\ UNCHANGED <<store, seq, storeUp, invalidated>>

\* time passes; all that matters of an entry's age is whether the expiration
\* has elapsed, so the age stops at defaultDataExpiration
Tick ==
    /\ cache.present
    /\ cache.age < defaultDataExpiration
    /\ cache' = [cache EXCEPT !.age = Min(@ + TickMinutes, defaultDataExpiration)]
    /\ UNCHANGED <<store, seq, storeUp, pc, loc, invalidated, out>>

\* the database stops answering / answers again
StoreDown ==
    /\ storeUp
    /\ storeUp' = FALSE
    /\ UNCHANGED <<store, seq, cache, pc, loc, invalidated, out>>

StoreRecover ==
    /\ ~storeUp
    /\ storeUp' = TRUE
    /\ UNCHANGED <<store, seq, cache, pc, loc, invalidated, out>>

\* another client of the Redis server overwrites the value under the key
\* with bytes that are no list of users
CacheCorrupt ==
    /\ cache.present
    /\ cache.data # Garbage
    /\ cache' = [cache EXCEPT !.data = Garbage]
    /\ UNCHANGED <<store, seq, storeUp, pc, loc, invalidated, out>>

\* any number of workers, Redis commands may fail
Next ==
    \/ \E p \in Procs : \E body \in Bodies : ControllerCreate(p, body)
    \/ \E p \in Procs : UserDbCreate(p)
    \/ \E p \in Procs : \E ok \in BOOLEAN : ProxyCreateDelete(p, ok)
    \/ \E p \in Procs : \E ok \in BOOLEAN : ProxyGetAllGet(p, ok)
    \/ \E p \in Procs : UserDbGetAll(p)
    \/ \E p \in Procs : \E ok \in BOOLEAN : ProxyGetAllSet(p, ok)
    \/ Tick
    \/ StoreDown
    \/ StoreRecover

Spec == Init /\ [][Next]_vars

\* one request at a time, every Redis command succeeds
NextSeq ==
    \/ \E p \in SeqProcs : \E body \in Bodies : ControllerCreate(p, body)
    \/ \E p \in SeqProcs : UserDbCreate(p)
    \/ \E p \in SeqProcs : ProxyCreateDelete(p, TRUE)
    \/ \E p \in SeqProcs : ProxyGetAllGet(p, TRUE)
    \/ \E p \in SeqProcs : UserDbGetAll(p)
    \/ \E p \in SeqProcs : ProxyGetAllSet(p, TRUE)
    \/ Tick
    \/ StoreDown
    \/ StoreRecover

SpecSeq == Init /\ [][NextSeq]_vars

\* one request at a time with every fault: Redis commands may fail, the value
\* under the key may be overwritten, the database may be down
NextFail ==
    \/ \E p \in SeqProcs : \E body \in Bodies : ControllerCreate(p, body)
    \/ \E p \in SeqProcs : UserDbCreate(p)
    \/ \E p \in SeqProcs : \E ok \in BOOLEAN : ProxyCreateDelete(p, ok)
    \/ \E p \in SeqProcs : \E ok \in BOOLEAN : ProxyGetAllGet(p, ok)
    \/ \E p \in SeqProcs : UserDbGetAll(p)
    \/ \E p \in SeqProcs : \E ok \in BOOLEAN : ProxyGetAllSet(p, ok)
    \/ Tick
    \/ StoreDown
    \/ StoreRecover
    \/ CacheCorrupt

SpecFail == Init /\ [][NextFail]_vars

\* the bodies that pass decoding and validation
ValidBodies == {b \in Bodies : DecodeUser(b).err = "nil" /\ ~TooYoung(DecodeUser(b).user)}

\* any number of workers, the creates are those that reach the table; the
\* cache delete of a create may fail, every other backend access succeeds
NextLive ==
    \/ \E p \in Procs : \E body \in ValidBodies : ControllerCreate(p, body)
    \/ \E p \in Procs : UserDbCreate(p)
    \/ \E p \in Procs : \E ok \in BOOLEAN : ProxyCreateDelete(p, ok)
    \/ \E p \in Procs : ProxyGetAllGet(p, TRUE)
    \/ \E p \in Procs : UserDbGetAll(p)
    \/ \E p \in Procs : ProxyGetAllSet(p, TRUE)
    \/ Tick

\* Every handler runs in its own goroutine and goes on to its next backend
\* access, and the clock of the Redis server advances.  No fairness is asked
\* of the arrival of requests.
Fairness ==
    /\ WF_vars(Tick)
    /\ \A p \in Procs :
          /\ WF_vars(UserDbCreate(p))
          /\ WF_vars(\E ok \in BOOLEAN : ProxyCreateDelete(p, ok))
          /\ WF_vars(UserDbGetAll(p))
          /\ WF_vars(ProxyGetAllSet(p, TRUE))

SpecLive == Init /\ [][NextLive]_vars /\ Fairness

\* ------------------------------------------------------ the cache on its own

SampleUser(id, email) ==
    [Id |-> id, Name |-> "Al", Password |-> "x", Email |-> email, Age |-> MinAge]

\* values a caller of the Cache interface may hand to Set
Values ==
    {UsersValue(NilSlice), UsersValue(Slice(<<>>)),
     UsersValue(Slice(<<SampleUser(1, "a@x.com")>>)),
     UsersValue(Slice(<<SampleUser(1, "a@x.com"), SampleUser(2, "b@x.com")>>)),
     BytesValue(Garbage), BytesValue(EncodeUsers(Slice(<<SampleUser(2, "b@x.com")>>))),
     FuncValue}

\* a caller calls cache.Set("users", value); out records the call: the kind
\* of the value, whether Set logged, and the error Set returned
CacheSetCall(value, ok) ==
    LET r == CacheSet(cache, value, ok, {})
    IN  /\ cache' = r.entry
        /\ out' = [NoOut EXCEPT !.op = "cache.Set",
                                !.trace = <<value.kind, IF ok THEN "client.Set" ELSE "client.Set:err",
                                            IF r.logged THEN "log" ELSE "nolog">>,
                                !.resp = [NoResp EXCEPT !.err = r.err,
                                                        !.json = EncodeValue(value).data]]
        /\ UNCHANGED <<store, seq, storeUp, pc, loc, invalidated>>

NextCache ==
    \/ \E value \in Values : \E ok \in BOOLEAN : CacheSetCall(value, ok)
    \/ Tick

SpecCache == Init /\ [][NextCache]_vars

\* ------------------------------------------------------------------ claims

\* the ids of the user objects of a JSON array
Ids(items) == {items[i].id : i \in 1..Len(items)}

\* the array holds the user object of this row
Lists(items, row) == \E k \in 1..Len(items) : items[k] = EncodeUser(Scan(row))

\* a request completes in this step
Completes == out' # out

\* C1: with one request at a time and every cache command succeeding, a
\* successful listAll returns every user whose create has returned, also when
\* an earlier listAll had cached the list without that user.
C1_ListReflectsCreates ==
    (out.op = "list" /\ out.resp.status = StatusOK)
        => \A i \in 1..Len(store) :
              store[i].id \in invalidated => Lists(out.resp.json.items, store[i])

\* a listAll answered with a user whose create removed a live cache entry
C1_Witness ==
    /\ out.op = "list"
    /\ out.resp.status = StatusOK
    /\ out.evicted
    /\ out.trace = <<"cache.Get:nil", "db.GetAll", "cache.Set">>
    /\ invalidated # {}
    /\ Ids(out.resp.json.items) = invalidated

\* C2 as stated: under any interleaving, a cache entry never omits a user
\* whose create (insert, then cache delete) has completed.
C2_EntryNeverOmitsCompleted ==
    Live(cache) => invalidated \subseteq Ids(cache.data.items)

\* C2 as amended: under any interleaving, a cache entry holds every user whose
\* create had completed when the listAll that wrote the entry read the table;
\* it may omit a user created after that read.
C2_EntryAsOfItsRead ==
    cache.present => cache.asOf \subseteq Ids(cache.data.items)

\* every request has returned and the entry lacks a user whose create completed
C2_Witness ==
    /\ \A p \in Procs : pc[p] = "idle"
    /\ Live(cache)
    /\ cache.asOf # {}
    /\ ~(invalidated \subseteq Ids(cache.data.items))

\* C3: a create of a user younger than 18 that reaches the service fails with
\* ValidationFailure without any access to the table or the cache: the rows,
\* the id counter and the cache entry are unchanged.
C3_UnderageRejected ==
    [][(Completes /\ out'.op = "create" /\ out'.trace # <<>> /\ out'.user.Age < MinAge)
          => /\ out'.resp = ErrorResp(StatusInternalServerError, "ValidationFailure")
             /\ out'.trace = <<"service.Create">>
             /\ store' = store
             /\ seq' = seq
             /\ cache' = cache]_vars

\* an underage create was rejected while its email was stored and cached
C3_Witness ==
    /\ out.op = "create"
    /\ out.user.Age = MinAge - 1
    /\ out.resp.err = "ValidationFailure"
    /\ EmailExists(store, out.user.Email)
    /\ Live(cache)
    /\ cache.data.kind = "array"

\* another row already holds the email of request o
StoredBefore(o) ==
    \E i \in 1..Len(store) : store[i].email = o.user.Email /\ store[i].id # o.id

\* C4 as stated: a create whose email another stored user has fails with
\* ConstraintViolation whatever its age (the table answering), and adds no row.
C4_DuplicateFailsConstraint ==
    [][(Completes /\ out'.op = "create" /\ out'.trace # <<>> /\ StoredBefore(out')
          /\ out'.resp.err # "IOFailure")
          => (out'.resp.err = "ConstraintViolation" /\ store' = store)]_vars

\* C4 as amended: a create whose email another stored user has fails and adds
\* no row; it fails with ValidationFailure when its age is below 18 (the age is
\* checked first), otherwise with ConstraintViolation (IOFailure when the
\* table does not answer).
C4_DuplicateFails ==
    [][(Completes /\ out'.op = "create" /\ out'.trace # <<>> /\ StoredBefore(out'))
          => /\ out'.resp.status = StatusInternalServerError
             /\ out'.id = 0
             /\ store' = store
             /\ out'.resp.err = IF out'.user.Age < MinAge THEN "ValidationFailure"
                                ELSE IF out'.trace[2] = "db.Create:err" THEN "IOFailure"
                                ELSE "ConstraintViolation"]_vars

\* a create of an adult was refused because its email is stored
C4_Witness ==
    /\ out.op = "create"
    /\ out.user.Age >= MinAge
    /\ out.resp.err = "ConstraintViolation"
    /\ out.trace = <<"service.Create", "db.Create">>
    /\ Cardinality({i \in 1..Len(store) : store[i].email = out.user.Email}) = 1

\* C5: a create of a user of age 18 or more is passed to the table; if the
\* table answers and holds no row with the email, the INSERT appends exactly
\* that user under an id that is positive and is the id of no earlier row, and
\* the create returns 201 with that id whatever the cache delete does.
C5_FreshCreateSucceeds ==
    [][/\ (Completes /\ out'.op = "create" /\ out'.trace # <<>> /\ out'.user.Age >= MinAge)
            => Len(out'.trace) >= 2
       /\ \A p \in Procs :
            (pc[p] = "db.Create" /\ pc'[p] # "db.Create" /\ storeUp
               /\ ~EmailExists(store, loc[p].user.Email))
            => /\ pc'[p] = "cache.Delete"
               /\ loc'[p].id > 0
               /\ \A i \in 1..Len(store) : store[i].id # loc'[p].id
               /\ store' = Append(store, Row(loc'[p].id, loc[p].user))
       /\ \A p \in Procs :
            (pc[p] = "cache.Delete" /\ pc'[p] = "idle")
            => /\ out'.resp = CreatedResp(loc[p].id)
               /\ out'.user = loc[p].user
               /\ store' = store]_vars

\* the second successful create returned id 2, its cache delete having failed
C5_Witness ==
    /\ out.op = "create"
    /\ out.resp.status = StatusCreated
    /\ out.resp.text = "2"
    /\ out.trace = <<"service.Create", "db.Create", "cache.Delete:err">>
    /\ Len(store) = 2
    /\ store[2] = Row(2, out.user)

\* C6: a listAll that follows a successful listAll, with no create between
\* them and the entry's expiration not elapsed, is answered from the cache
\* alone, without access to the table, with the same response.
C6_RepeatedListFromCache ==
    [][(Completes /\ out.op = "list" /\ out.resp.status = StatusOK
          /\ out'.op = "list" /\ out'.trace[1] # "cache.Get:expired")
          => (out'.resp = out.resp /\ out'.trace = <<"cache.Get:hit">>)]_vars

\* a listAll answered from the cache after a successful listAll, while the
\* table does not answer
C6_Witness ==
    /\ out.op = "list"
    /\ out.afterList
    /\ out.trace = <<"cache.Get:hit">>
    /\ out.resp.status = StatusOK
    /\ Len(out.resp.json.items) = 2
    /\ ~storeUp
    /\ cache.age > 0

\* C7: in every state no two rows share an email, and no two creates with
\* the same email are both past their INSERT.
C7_EmailsUnique ==
    /\ \A i, j \in 1..Len(store) : i # j => store[i].email # store[j].email
    /\ \A p, q \in Procs :
          (p # q /\ pc[p] = "cache.Delete" /\ pc[q] = "cache.Delete")
          => loc[p].user.Email # loc[q].user.Email

\* of two overlapping creates with one email, one was refused while the other
\* had inserted and not yet returned
C7_Witness ==
    /\ out.op = "create"
    /\ out.resp.err = "ConstraintViolation"
    /\ \E p \in Procs : pc[p] = "cache.Delete" /\ loc[p].user.Email = out.user.Email

\* the expiration of the entry has elapsed since it was written
Elapsed == cache.present /\ cache.age >= defaultDataExpiration

WellFormed(body) == body.lead = "value" /\ ~body.rest

\* the body starts with a JSON value that fits type User: null, or an object
\* whose name, password and email are strings and whose age is a number
Fits(body) ==
    /\ body.lead = "value"
    /\ \/ body.val.t = "null"
       \/ /\ body.val.t = "object"
          /\ body.val.name.t \in {"string", "absent"}
          /\ body.val.password.t \in {"string", "absent"}
          /\ body.val.email.t \in {"string", "absent"}
          /\ body.val.age.t \in {"number", "absent"}

\* C9 as stated: POST /user answers 400 exactly when the body is malformed
\* JSON, 201 exactly when the body is well formed and the create succeeds,
\* 500 exactly when the body is well formed and the create fails.
C9_BadRequestIffMalformed ==
    out.op = "create"
        => /\ out.resp.status = StatusBadRequest <=> ~WellFormed(out.body)
           /\ out.resp.status = StatusBadRequest => out.trace = <<>>
           /\ out.resp.status = StatusCreated <=> (WellFormed(out.body) /\ out.id > 0)
           /\ out.resp.status = StatusInternalServerError
                <=> (WellFormed(out.body) /\ out.id = 0)

\* C9 as amended: POST /user answers 400 exactly when the body does not decode
\* into a User, that is when it does not start with a JSON value or that value
\* does not fit type User (text after the first value is not read); the
\* service is then not called.  It answers 201 with the new id exactly when
\* the body decodes and the create succeeds, 500 exactly when the body decodes
\* and the create fails, by the age rule or by an error of the table.
C9_StatusMapping ==
    out.op = "create"
        => /\ out.resp.status \in {StatusCreated, StatusBadRequest, StatusInternalServerError}
           /\ out.resp.status = StatusBadRequest <=> ~Fits(out.body)
           /\ out.resp.status = StatusBadRequest => (out.trace = <<>> /\ out.id = 0)
           /\ out.resp.status = StatusCreated <=> (Fits(out.body) /\ out.id > 0)
           /\ out.resp.status = StatusCreated
                => /\ out.resp.text = Itoa(out.id)
                   /\ \E i \in 1..Len(store) : store[i] = Row(out.id, out.user)
           /\ out.resp.status = StatusInternalServerError
                <=> /\ Fits(out.body)
                    /\ out.resp.err \in {"ValidationFailure", "ConstraintViolation", "IOFailure"}
           /\ out.resp.err = "ValidationFailure" <=> (Fits(out.body) /\ out.user.Age < MinAge)

\* a well-formed JSON object whose age is a string was answered 400
C9_Witness ==
    /\ out.op = "create"
    /\ out.resp.status = StatusBadRequest
    /\ WellFormed(out.body)
    /\ out.body.val.t = "object"
    /\ out.body.val.age.t = "string"
    /\ out.trace = <<>>

\* C10: GET /users answers a successful listAll with status 200 and a JSON
\* array of the user objects, also for the empty table and also from the
\* cache, and a failed listAll with status 500.
C10_ListBodyIsArray ==
    out.op = "list"
        => /\ out.resp.status \in {StatusOK, StatusInternalServerError}
           /\ out.resp.status = StatusOK => out.resp.json.kind = "array"
           /\ out.resp.status = StatusInternalServerError => out.resp.err = "IOFailure"

\* the JSON document of a list of rows: null for no row, else the array of
\* the rows' user objects
Listing(rows) ==
    IF Len(rows) = 0
    THEN [kind |-> "null", items |-> <<>>]
    ELSE [kind |-> "array",
          items |-> [i \in 1..Len(rows) |->
                        [id |-> rows[i].id, name |-> rows[i].name,
                         password |-> rows[i].password, email |-> rows[i].email,
                         age |-> rows[i].age]]]

\* C11: a listAll whose cache read succeeds is answered with the cached list
\* at once: it makes no other backend access, the entry under the key and the
\* table are as before, and the response carries the document of the entry.
C11_HitLeavesAllAlone ==
    [][(Completes /\ out'.op = "list" /\ out'.trace[1] = "cache.Get:hit")
          => /\ Live(cache)
             /\ out'.trace = <<"cache.Get:hit">>
             /\ out'.resp.status = StatusOK
             /\ out'.resp.json = cache.data
             /\ cache' = cache
             /\ store' = store
             /\ seq' = seq]_vars

\* a listAll answered from a live entry that holds a user
C11_Witness ==
    /\ out.op = "list"
    /\ out.trace = <<"cache.Get:hit">>
    /\ Len(out.resp.json.items) >= 1
    /\ Live(cache)
    /\ cache.data = out.resp.json

\* C12: a listAll whose cache read fails, whatever the failure (key missing
\* or expired, value not decodable, command failed), reads the table and
\* answers with what the table answered: the table's list with 200 whether
\* or not the cache set that follows succeeds, or the table's error with 500,
\* and then no cache set is made and the entry is as before.
C12_MissAnswersFromStore ==
    [][(Completes /\ out'.op = "list" /\ out'.trace[1] # "cache.Get:hit")
          => /\ out'.trace[1] \in {"cache.Get:nil", "cache.Get:expired",
                                   "cache.Get:decode", "cache.Get:err"}
             /\ Len(out'.trace) >= 2
             /\ IF out'.trace[2] = "db.GetAll"
                THEN /\ Len(out'.trace) = 3
                     /\ out'.trace[3] \in {"cache.Set", "cache.Set:err"}
                     /\ out'.resp.status = StatusOK
                     /\ out'.resp.err = "nil"
                     /\ out'.resp.json = Listing(store)
                ELSE /\ out'.trace = <<out'.trace[1], "db.GetAll:err">>
                     /\ out'.resp = ErrorResp(StatusInternalServerError, "IOFailure")
                     /\ cache' = cache]_vars

\* a listAll that found a value it could not decode, read two users from the
\* table, failed to set the cache and still answered with the two users
C12_Witness ==
    /\ out.op = "list"
    /\ out.trace = <<"cache.Get:decode", "db.GetAll", "cache.Set:err">>
    /\ out.resp.status = StatusOK
    /\ Len(out.resp.json.items) = 2
    /\ cache.data = Garbage

\* C13: when the INSERT of a create fails, because the database does not
\* answer or because the email is already in the table, the create returns
\* that error at once: no cache command follows, and the entry under the key
\* and the table are as they were.
C13_FailedCreateLeavesCache ==
    [][\A p \in Procs :
          (/\ pc[p] = "db.Create"
           /\ pc'[p] # "db.Create"
           /\ (~storeUp \/ \E i \in 1..Len(store) : store[i].email = loc[p].user.Email))
          => /\ pc'[p] = "idle"
             /\ out'.op = "create"
             /\ out'.body = loc[p].body
             /\ out'.resp = ErrorResp(StatusInternalServerError,
                                      IF ~storeUp THEN "IOFailure" ELSE "ConstraintViolation")
             /\ Len(out'.trace) = 2
             /\ out'.trace[1] = "service.Create"
             /\ cache' = cache
             /\ store' = store]_vars

\* a create refused for its email, with a live entry that holds a user still
\* under the key
C13_Witness ==
    /\ out.op = "create"
    /\ out.resp.err = "ConstraintViolation"
    /\ Live(cache)
    /\ Len(cache.data.items) >= 1

\* C14: a create whose INSERT succeeds leaves the cache alone in the step of
\* the INSERT and deletes the key only afterwards, when the row is in the
\* table; it answers 201 with the new id whether the delete succeeds (the key
\* is gone) or fails (the entry is as before).
C14_DeleteAfterInsert ==
    [][\A p \in Procs :
          /\ (pc[p] = "db.Create" /\ pc'[p] = "cache.Delete")
                => /\ cache' = cache
                   /\ Len(store') = Len(store) + 1
                   /\ store'[Len(store')].id = loc'[p].id
                   /\ store'[Len(store')].email = loc[p].user.Email
          /\ (pc[p] = "cache.Delete" /\ pc'[p] # "cache.Delete")
                => /\ pc'[p] = "idle"
                   /\ \E i \in 1..Len(store) : store[i].id = loc[p].id
                   /\ store' = store
                   /\ out'.resp = CreatedResp(loc[p].id)
                   /\ Len(out'.trace) = 3
                   /\ out'.trace[1] = "service.Create"
                   /\ out'.trace[2] = "db.Create"
                   /\ out'.trace[3] \in {"cache.Delete", "cache.Delete:err"}
                   /\ out'.trace[3] = "cache.Delete" => ~cache'.present
                   /\ out'.trace[3] = "cache.Delete:err" => cache' = cache]_vars

\* a create answered 201 whose cache delete failed: the live entry written
\* before the INSERT is still under the key and does not list the new user
C14_Witness ==
    /\ out.op = "create"
    /\ out.resp.status = StatusCreated
    /\ out.trace[3] = "cache.Delete:err"
    /\ Live(cache)
    /\ cache.data.kind = "array"
    /\ out.id \notin Ids(cache.data.items)

\* C15: listAll requests that miss the cache at the same time are not
\* coalesced: each one reads the table itself, answers with the list it read
\* and sets the cache with that list whatever the other has done meanwhile,
\* so the entry under the key is the one of the set that ran last; the
\* other request in flight is not touched.
C15_MissesNotCoalesced ==
    [][\A p \in Procs :
          /\ (pc[p] = "db.GetAll" /\ pc'[p] # "db.GetAll")
                => IF storeUp
                   THEN /\ pc'[p] = "cache.Set"
                        /\ EncodeUsers(loc'[p].users) = Listing(store)
                        /\ cache' = cache
                   ELSE /\ pc'[p] = "idle"
                        /\ out'.resp.err = "IOFailure"
          /\ (pc[p] = "cache.Set" /\ pc'[p] # "cache.Set")
                => /\ pc'[p] = "idle"
                   /\ out'.resp.status = StatusOK
                   /\ out'.resp.json = EncodeUsers(loc[p].users)
                   /\ out'.trace[3] \in {"cache.Set", "cache.Set:err"}
                   /\ out'.trace[3] = "cache.Set"
                        => /\ cache'.present
                           /\ cache'.age = 0
                           /\ cache'.data = EncodeUsers(loc[p].users)
                   /\ out'.trace[3] = "cache.Set:err" => cache' = cache
                   /\ \A q \in Procs \ {p} : pc'[q] = pc[q] /\ loc'[q] = loc[q]]_vars

\* two listAll requests missed together: one has set the cache and answered,
\* the other, which read the table earlier and holds a shorter list, is about
\* to set the cache in its turn
C15_Witness ==
    \E q \in Procs :
        /\ pc[q] = "cache.Set"
        /\ out.op = "list"
        /\ Len(out.trace) = 3
        /\ out.trace[3] = "cache.Set"
        /\ Live(cache)
        /\ cache.age = 0
        /\ cache.data = out.resp.json
        /\ Len(loc[q].users.elems) < Len(cache.data.items)

\* nothing that a listAll could answer with is out of date: a live entry
\* holds the table's list, and so does every list a request in flight has
\* read from the table
Fresh ==
    /\ Live(cache) => cache.data = Listing(store)
    /\ \A p \in Procs : pc[p] = "cache.Set" => EncodeUsers(loc[p].users) = Listing(store)

MissLabels == {"cache.Get:nil", "cache.Get:expired", "cache.Get:decode", "cache.Get:err"}

\* the backend calls of a finished listAll: one cache get, then at most one
\* table read, then at most one cache set
ListTraces ==
    {<<"cache.Get:hit">>}
    \cup {<<g, "db.GetAll:err">> : g \in MissLabels}
    \cup {<<g, "db.GetAll", c>> : g \in MissLabels, c \in {"cache.Set", "cache.Set:err"}}

\* the calls of a finished create: at most one INSERT, then at most one cache
\* delete
CreateTraces ==
    {<<>>, <<"service.Create">>, <<"service.Create", "db.Create:err">>,
     <<"service.Create", "db.Create">>}
    \cup {<<"service.Create", "db.Create", d>> : d \in {"cache.Delete", "cache.Delete:err"}}

\* how many backend calls a handler at this point has made
Rank(label) == CASE label \in {"db.Create", "db.GetAll"} -> 1
                 [] label \in {"cache.Delete", "cache.Set"} -> 2
                 [] OTHER -> 0

\* C17: every listAll makes at most one cache get, one table read and one
\* cache set, in that order, and every create at most one INSERT and one
\* cache delete, in that order; a step of a request in flight either ends the
\* request or makes the one call that comes next, so that no call is made
\* twice, also after a failure, and a request in flight can always take its
\* step: it returns after at most three calls.
C17_SingleAttempt ==
    /\ [](/\ out.op = "list" => out.trace \in ListTraces
          /\ out.op = "create" => out.trace \in CreateTraces
          /\ \A p \in Procs :
                /\ Len(loc[p].trace) = Rank(pc[p])
                /\ pc[p] = "db.Create" => ENABLED UserDbCreate(p)
                /\ pc[p] = "cache.Delete" => ENABLED ProxyCreateDelete(p, TRUE)
                /\ pc[p] = "db.GetAll" => ENABLED UserDbGetAll(p)
                /\ pc[p] = "cache.Set" => ENABLED ProxyGetAllSet(p, TRUE))
    /\ [][\A p \in Procs :
            (pc[p] # "idle" /\ (pc'[p] # pc[p] \/ loc'[p] # loc[p]))
               => \/ pc'[p] = "idle" /\ Len(out'.trace) = Rank(pc[p]) + 1
                  \/ /\ Rank(pc'[p]) = Rank(pc[p]) + 1
                     /\ Len(loc'[p].trace) = Len(loc[p].trace) + 1]_vars

\* a listAll whose cache get failed and whose cache set failed has returned
\* the table's users after three calls, and no request is in flight
C17_Witness ==
    /\ out.op = "list"
    /\ out.trace = <<"cache.Get:err", "db.GetAll", "cache.Set:err">>
    /\ out.resp.status = StatusOK
    /\ Len(out.resp.json.items) >= 1
    /\ \A p \in Procs : pc[p] = "idle"

\* C18: the table only grows at its end: every step leaves its rows and its
\* id counter as they are, except the successful INSERT of a create, which
\* appends one row for the user of that create under an id greater than
\* every id given out before; listAll, failed creates, cache commands and
\* the clock change no row.
C18_StoreAppendOnly ==
    [][\/ store' = store /\ seq' = seq
       \/ \E p \in Procs :
            /\ pc[p] = "db.Create"
            /\ pc'[p] = "cache.Delete"
            /\ loc[p].op = "create"
            /\ store' = Append(store, [id |-> loc'[p].id, name |-> loc[p].user.Name,
                                       password |-> loc[p].user.Password,
                                       email |-> loc[p].user.Email, age |-> loc[p].user.Age])
            /\ seq' = loc'[p].id
            /\ loc'[p].id > seq
            /\ \A i \in 1..Len(store) : store[i].id <= seq]_vars

\* two users are stored under ids in ascending order, and a create refused
\* for its email has returned after them
C18_Witness ==
    /\ Len(store) = 2
    /\ store[1].id < store[2].id
    /\ out.op = "create"
    /\ out.resp.err = "ConstraintViolation"

IsPrefixListing(doc) ==
    \E k \in 0..Len(store) : doc = Listing(SubSeq(store, 1, k))

\* C20: every list a listAll has answered with, every list a request in
\* flight has read, and every value under the cache key is the list of the
\* first rows of the table, in the order of insertion: a list the table held
\* at some earlier moment.  The rows themselves all come from creates that
\* passed the age rule and the UNIQUE constraint, so no list shows a user
\* whose create failed or was rejected.
C20_NoPhantomUsers ==
    /\ cache.present => IsPrefixListing(cache.data)
    /\ (out.op = "list" /\ out.resp.status = StatusOK) => IsPrefixListing(out.resp.json)
    /\ \A p \in Procs : pc[p] = "cache.Set" => IsPrefixListing(EncodeUsers(loc[p].users))
    /\ \A i \in 1..Len(store) :
          /\ store[i].age >= MinAge
          /\ store[i].id >= 1
          /\ \A j \in 1..Len(store) : store[i].email = store[j].email => i = j

\* a listAll answered from a live entry with one user while the table holds
\* two: the list the table held before the second INSERT
C20_Witness ==
    /\ out.op = "list"
    /\ out.trace = <<"cache.Get:hit">>
    /\ Len(out.resp.json.items) = 1
    /\ Len(store) = 2
    /\ Live(cache)
====
